---- MODULE Spec2Model ----
(***************************************************************************)
(* Marzban metrics exporter: src/src/api.py (MarzbanAPI, the upstream      *)
(* client, and PrometheusCollector, the metric translator) and             *)
(* src/src/exporter.py (bootstrap and the /metrics route).                 *)
(***************************************************************************)
EXTENDS Integers, Sequences, FiniteSets, TLC

(***************************************************************************)
(* Bounds of the model.                                                    *)
(***************************************************************************)
\* number of /metrics requests in a behaviour
MaxScrapes == 2
\* longest list (nodes, usages, users) of the responses SpecMap draws
MaxRecs == 1

(***************************************************************************)
(* JSON values and Python values: a number, a string or a boolean, tagged  *)
(* with its type.  A JSON object is a function from its keys to values.    *)
(***************************************************************************)
JNum(n) == [t |-> "num", v |-> n]
JStr(s) == [t |-> "str", v |-> s]
JBool(b) == [t |-> "bool", v |-> b]

\* dict.get(key, default)
Get(obj, key, default) == IF key \in DOMAIN obj THEN obj[key] ELSE default

\* str(x)
Str(x) ==
    IF x.t = "str" THEN x
    ELSE IF x.t = "num" THEN JStr(ToString(x.v))
    ELSE JStr(IF x.v THEN "True" ELSE "False")

\* int(x)
Int_(x) ==
    IF x.t = "bool" THEN JNum(IF x.v THEN 1 ELSE 0)
    ELSE x

(***************************************************************************)
(* The metric families PrometheusCollector.__init__ creates, in dict       *)
(* order: the key of self.metrics and the exported family name.            *)
(***************************************************************************)
MetricKeys ==
    << "node_usage_coefficient", "node_address", "node_uplink", "node_downlink",
       "system_version", "system_mem_total", "system_mem_used",
       "system_cpu_usage", "system_total_users", "system_active_users",
       "system_incoming_bandwidth", "system_outgoing_bandwidth",
       "core_started", "total_users", "user_traffic" >>

FamilyNames ==
    << "node_usage_coefficient", "node_info", "node_uplink_bytes",
       "node_downlink_bytes", "system_version", "system_memory_total_bytes",
       "system_memory_used_bytes", "system_cpu_usage_percent",
       "system_total_users", "system_active_users",
       "system_incoming_bandwidth_bytes", "system_outgoing_bandwidth_bytes",
       "core_started", "total_users", "user_lifetime_used_traffic_bytes" >>

KeySet == {MetricKeys[i] : i \in 1..Len(MetricKeys)}
NameSet == {FamilyNames[i] : i \in 1..Len(FamilyNames)}

\* the key of self.metrics whose family is exported under name n
KeyOf(n) == MetricKeys[CHOOSE i \in 1..Len(FamilyNames) : FamilyNames[i] = n]

\* self.metrics right after __init__: every family without samples
NewMetrics == [k \in KeySet |-> <<>>]

\* GaugeMetricFamily.add_metric(labels, value) on self.metrics[key]
add_metric(m, key, labels, value) ==
    [m EXCEPT ![key] = Append(@, [labels |-> labels, value |-> value])]

(***************************************************************************)
(* The mapping loops of the _collect_*_metrics methods, applied to         *)
(* self.metrics m and the JSON a fetch returned.                           *)
(***************************************************************************)
\* node_samples with 0 as the default of every field, the number's default
\* used for the labels as well
node_samples_zero_labels(m, node) ==
    LET node_name == Get(node, "name", JStr("unknown"))
        m1 == add_metric(m, "node_usage_coefficient", <<node_name>>,
                         Get(node, "usage_coefficient", JNum(0)))
    IN  add_metric(m1, "node_address",
                   << Str(node_name),
                      Str(Get(node, "address", JStr("unknown"))),
                      Str(Get(node, "port", JNum(0))),
                      Str(Get(node, "api_port", JNum(0))),
                      Str(Get(node, "xray_version", JStr("unknown"))),
                      Str(Get(node, "status", JStr("unknown"))) >>,
                   JNum(1))

node_samples(m, node) ==
    LET node_name == Get(node, "name", JStr("unknown"))
        m1 == add_metric(m, "node_usage_coefficient", <<node_name>>,
                         Get(node, "usage_coefficient", JNum(0)))
    IN  add_metric(m1, "node_address",
                   << Str(node_name),
                      Str(Get(node, "address", JStr("unknown"))),
                      Str(Get(node, "port", JStr("unknown"))),
                      Str(Get(node, "api_port", JStr("unknown"))),
                      Str(Get(node, "xray_version", JStr("unknown"))),
                      Str(Get(node, "status", JStr("unknown"))) >>,
                   JNum(1))

RECURSIVE map_nodes(_, _)
map_nodes(m, nodes) ==
    IF nodes = <<>> THEN m
    ELSE map_nodes(node_samples(m, Head(nodes)), Tail(nodes))

usage_samples(m, usage) ==
    LET node_name == Get(usage, "node_name", JStr("unknown"))
        m1 == add_metric(m, "node_uplink", <<node_name>>,
                         Get(usage, "uplink", JNum(0)))
    IN  add_metric(m1, "node_downlink", <<node_name>>,
                   Get(usage, "downlink", JNum(0)))

RECURSIVE map_usages(_, _)
map_usages(m, usages) ==
    IF usages = <<>> THEN m
    ELSE map_usages(usage_samples(m, Head(usages)), Tail(usages))

map_nodes_usage(m, usage_data) ==
    map_usages(m, Get(usage_data, "usages", <<>>))

map_system(m, system_data) ==
    LET m1 == add_metric(m, "system_version", <<>>, JNum(1))
        m2 == add_metric(m1, "system_mem_total", <<>>,
                         Get(system_data, "mem_total", JNum(0)))
        m3 == add_metric(m2, "system_mem_used", <<>>,
                         Get(system_data, "mem_used", JNum(0)))
        m4 == add_metric(m3, "system_cpu_usage", <<>>,
                         Get(system_data, "cpu_usage", JNum(0)))
        m5 == add_metric(m4, "system_total_users", <<>>,
                         Get(system_data, "total_user", JNum(0)))
        m6 == add_metric(m5, "system_active_users", <<>>,
                         Get(system_data, "users_active", JNum(0)))
        m7 == add_metric(m6, "system_incoming_bandwidth", <<>>,
                         Get(system_data, "incoming_bandwidth", JNum(0)))
    IN  add_metric(m7, "system_outgoing_bandwidth", <<>>,
                   Get(system_data, "outgoing_bandwidth", JNum(0)))

map_core(m, core_data) ==
    add_metric(m, "core_started", <<>>,
               Int_(Get(core_data, "started", JBool(FALSE))))

user_samples(m, user) ==
    add_metric(m, "user_traffic",
               << Get(user, "username", JStr("unknown")) >>,
               Get(user, "lifetime_used_traffic", JNum(0)))

RECURSIVE map_user_list(_, _)
map_user_list(m, users) ==
    IF users = <<>> THEN m
    ELSE map_user_list(user_samples(m, Head(users)), Tail(users))

map_users(m, users_data) ==
    LET users == Get(users_data, "users", <<>>)
    IN  map_user_list(add_metric(m, "total_users", <<>>, JNum(Len(users))),
                      users)

\* the mapping each _collect_*_metrics method applies to what it fetched
\* from its endpoint
map_data(endpoint, m, data) ==
    CASE endpoint = "/nodes" -> map_nodes(m, data)
      [] endpoint = "/nodes/usage" -> map_nodes_usage(m, data)
      [] endpoint = "/system" -> map_system(m, data)
      [] endpoint = "/core" -> map_core(m, data)
      [] endpoint = "/users" -> map_users(m, data)

\* `yield from self.metrics.values()`, as serialized by generate_latest:
\* the samples of every family, under the family's exported name
Render(m) == [n \in NameSet |-> m[KeyOf(n)]]

(***************************************************************************)
(* The upstream control plane, as far as the client sees it: what it       *)
(* answers to one HTTP request.  transport = TRUE is a transport error     *)
(* (no response); otherwise a response with a status and a body that is    *)
(* JSON (data) or not.                                                     *)
(***************************************************************************)
Response(status, json, data) ==
    [transport |-> FALSE, status |-> status, json |-> json, data |-> data]
\* a JSON object without keys; also stands for a body nobody reads
EmptyObject == [k \in {} |-> JNum(0)]
TransportError ==
    [transport |-> TRUE, status |-> 0, json |-> FALSE, data |-> EmptyObject]

\* answers to POST /admin/token
TokenBodies ==
    { [access_token |-> JStr("tok")],
      [detail |-> JStr("Incorrect username or password")] }
TokenResponses ==
    {TransportError}
    \cup {Response(st, TRUE, d) : st \in {200, 401}, d \in TokenBodies}
    \cup {Response(st, FALSE, EmptyObject) : st \in {200, 502}}

\* upstream records: the fixture of each list, and a node the upstream
\* knows only by name
Node1 ==
    [name |-> JStr("n1"), usage_coefficient |-> JNum(2),
     address |-> JStr("1.2.3.4"), port |-> JNum(443),
     api_port |-> JNum(62050), xray_version |-> JStr("1.8"),
     status |-> JStr("connected")]
Node2 == [name |-> JStr("n2")]
Usage1 ==
    [node_name |-> JStr("n1"), uplink |-> JNum(100), downlink |-> JNum(200)]
User1 ==
    [username |-> JStr("alice"), lifetime_used_traffic |-> JNum(12345)]
System1 ==
    [mem_total |-> JNum(1000), mem_used |-> JNum(500),
     cpu_usage |-> JNum(10), total_user |-> JNum(5),
     users_active |-> JNum(3), incoming_bandwidth |-> JNum(700),
     outgoing_bandwidth |-> JNum(300)]
Core1 == [started |-> JBool(TRUE)]

Endpoints == << "/nodes", "/nodes/usage", "/system", "/core", "/users" >>
EndpointSet == {Endpoints[i] : i \in 1..Len(Endpoints)}

\* well-formed JSON bodies of the five resources
Data(endpoint) ==
    CASE endpoint = "/nodes" -> { <<>>, <<Node1, Node2>> }
      [] endpoint = "/nodes/usage" -> { [usages |-> <<Usage1>>] }
      [] endpoint = "/system" -> { System1 }
      [] endpoint = "/core" -> { Core1 }
      [] endpoint = "/users" -> { [users |-> <<>>], [users |-> <<User1>>] }

\* answers to an authenticated GET other than a 2xx with a well-formed
\* body: while the upstream accepts the token, an error status, a 2xx whose
\* body is no JSON, a transport error; once it rejects the token, 401 (or
\* a transport error)
ErrorResponses(valid) ==
    IF valid
    THEN {Response(500, FALSE, EmptyObject), Response(200, FALSE, EmptyObject),
          TransportError}
    ELSE {Response(401, TRUE, EmptyObject), TransportError}

(***************************************************************************)
(* MarzbanAPI                                                              *)
(***************************************************************************)
NoError == [type |-> "none", endpoint |-> "", cause |-> ""]
Raised(type, endpoint, cause) ==
    [type |-> type, endpoint |-> endpoint, cause |-> cause]

\* _get_token: client.post(...).json()["access_token"]; the status of the
\* response is not looked at, and the only exception caught,
\* HTTPStatusError, is one neither post() nor json() raises
get_token(r) ==
    IF r.transport
    THEN [ok |-> FALSE, value |-> JStr(""),
          error |-> Raised("TransportError", "/admin/token", "transport")]
    ELSE IF ~r.json
    THEN [ok |-> FALSE, value |-> JStr(""),
          error |-> Raised("JSONDecodeError", "/admin/token", "json")]
    ELSE IF "access_token" \notin DOMAIN r.data
    THEN [ok |-> FALSE, value |-> JStr(""),
          error |-> Raised("KeyError", "/admin/token", "access_token")]
    ELSE [ok |-> TRUE, value |-> r.data["access_token"], error |-> NoError]

\* get_request without the Authorization header
get_request_anonymous(endpoint, tok) ==
    [method |-> "GET", endpoint |-> endpoint, authorization |-> ""]

\* the request _fetch sends: client.get(endpoint, headers={"Authorization":
\* f"Bearer {self.token}"})
get_request(endpoint, tok) ==
    [method |-> "GET", endpoint |-> endpoint,
     authorization |-> "Bearer " \o Str(tok).v]

\* fetch_requests with one retry of a request that got no 2xx answer
fetch_requests_retry(endpoint, tok, r) ==
    IF r.transport \/ r.status \notin 200..299
    THEN << get_request(endpoint, tok), get_request(endpoint, tok) >>
    ELSE << get_request(endpoint, tok) >>

\* the requests one call of _fetch issues, whatever the answer r: a single
\* client.get
fetch_requests(endpoint, tok, r) == << get_request(endpoint, tok) >>

\* fetch with a token refresh on 401: the token is acquired again and the
\* repeated request is answered
fetch_refresh_on_401(endpoint, r) ==
    IF r.transport
    THEN [ok |-> FALSE, data |-> EmptyObject,
          error |-> Raised("Exception", endpoint, "transport")]
    ELSE IF r.status = 401
    THEN [ok |-> TRUE, data |-> CHOOSE d \in Data(endpoint) : TRUE,
          error |-> NoError]
    ELSE IF r.status \notin 200..299
    THEN [ok |-> FALSE, data |-> EmptyObject,
          error |-> Raised("Exception", endpoint, "status")]
    ELSE IF ~r.json
    THEN [ok |-> FALSE, data |-> EmptyObject,
          error |-> Raised("JSONDecodeError", "", "json")]
    ELSE [ok |-> TRUE, data |-> r.data, error |-> NoError]

\* _fetch, given the upstream's answer r: raise_for_status(), then json();
\* httpx.HTTPError (transport and status errors) is re-raised as an
\* Exception naming the endpoint, anything else propagates as it is
fetch(endpoint, r) ==
    IF r.transport
    THEN [ok |-> FALSE, data |-> EmptyObject,
          error |-> Raised("Exception", endpoint, "transport")]
    ELSE IF r.status \notin 200..299
    THEN [ok |-> FALSE, data |-> EmptyObject,
          error |-> Raised("Exception", endpoint, "status")]
    ELSE IF ~r.json
    THEN [ok |-> FALSE, data |-> EmptyObject,
          error |-> Raised("JSONDecodeError", "", "json")]
    ELSE [ok |-> TRUE, data |-> r.data, error |-> NoError]

(***************************************************************************)
(* The process.                                                            *)
(*   boot       where the bootstrap of exporter.py stands: "import"        *)
(*              (before MarzbanAPI() is built), "constructed", "describe"  *)
(*              (a collect() run by register), "ready", "crashed"          *)
(*   token      MarzbanAPI.token                                           *)
(*   tokenCalls number of POST /admin/token issued                         *)
(*   tokenResp  what the upstream answered to the credential exchange      *)
(*   tokenValid the upstream still accepts the token (FALSE once expired)  *)
(*   metrics    PrometheusCollector.metrics, the families and the samples  *)
(*              added to them                                              *)
(*   arrived    /metrics requests received so far                          *)
(*   started    /metrics requests whose handler has been entered           *)
(*   cur, pc    the collect() that runs: 0 for the one of register,        *)
(*              1..MaxScrapes for the scrapes; pc is its position          *)
(*              ("idle" when none runs)                                    *)
(*   sent       per collect(), the GET requests it issued, in order        *)
(*   resps      per collect(), the JSON its fetches returned, in order     *)
(*   result     per scrape, the HTTP response to the /metrics request      *)
(*   raised     the exception that last left the client or collect()       *)
(*   before     metrics as it was when the running collect() began         *)
(***************************************************************************)
VARIABLES boot, token, tokenCalls, tokenResp, tokenValid, metrics,
          arrived, started, cur, pc, sent, resps, result, raised, before

vars == << boot, token, tokenCalls, tokenResp, tokenValid, metrics,
           arrived, started, cur, pc, sent, resps, result, raised, before >>

Scrapes == 1..MaxScrapes
Collects == 0..MaxScrapes

NoBody == <<>>
NoResponse == [status |-> 0, body |-> NoBody]

Init ==
    /\ boot = "import"
    /\ token = JStr("")
    /\ tokenCalls = 0
    /\ tokenResp = TransportError
    /\ tokenValid = TRUE
    /\ metrics = NewMetrics
    /\ arrived = 0
    /\ started = 0
    /\ cur = 0
    /\ pc = "idle"
    /\ sent = [c \in Collects |-> <<>>]
    /\ resps = [c \in Collects |-> <<>>]
    /\ result = [s \in Scrapes |-> NoResponse]
    /\ raised = NoError
    /\ before = NewMetrics

\* `import api`: the default argument MarzbanAPI() of
\* PrometheusCollector.__init__ is built once, when the class is defined;
\* its __init__ stores what _get_token returns, and an exception ends the
\* import and with it the process
MarzbanAPI_init ==
    /\ boot = "import"
    /\ \E r \in TokenResponses :
        LET t == get_token(r)
        IN  /\ tokenResp' = r
            /\ tokenCalls' = tokenCalls + 1
            /\ token' = IF t.ok THEN t.value ELSE token
            /\ boot' = IF t.ok THEN "constructed" ELSE "crashed"
            /\ raised' = t.error
    /\ UNCHANGED << tokenValid, metrics, arrived, started, cur, pc, sent,
                    resps, result, before >>

\* exporter.py, lines 6 to 12: the collector is built (its families are
\* created empty) and registered twice.  registry.register() does not call
\* the collector; prom.REGISTRY is the library's default registry, and
\* registering there a collector that has no describe() may run its
\* collect() once to learn the family names.  Both outcomes are modelled.
bootstrap ==
    /\ boot = "constructed"
    /\ metrics' = NewMetrics
    /\ \/ /\ boot' = "ready"
          /\ UNCHANGED << cur, pc, before >>
       \/ /\ boot' = "describe"
          /\ cur' = 0
          /\ pc' = "nodes"
          /\ before' = NewMetrics
    /\ UNCHANGED << token, tokenCalls, tokenResp, tokenValid, arrived,
                    started, sent, resps, result, raised >>

\* the upstream stops accepting the token (it expires)
Expire ==
    /\ boot \in {"constructed", "describe", "ready"}
    /\ tokenValid
    /\ tokenValid' = FALSE
    /\ UNCHANGED << boot, token, tokenCalls, tokenResp, metrics, arrived,
                    started, cur, pc, sent, resps, result, raised, before >>

\* a scraper sends GET /metrics
request_arrives ==
    /\ boot = "ready"
    /\ arrived < MaxScrapes
    /\ arrived' = arrived + 1
    /\ UNCHANGED << boot, token, tokenCalls, tokenResp, tokenValid, metrics,
                    started, cur, pc, sent, resps, result, raised, before >>

\* the route `async def metrics()` is entered for the oldest waiting
\* request.  It never awaits, so the event loop runs one handler at a time
\* from entry to response.
metrics_route ==
    /\ boot = "ready"
    /\ pc = "idle"
    /\ started < arrived
    /\ started' = started + 1
    /\ cur' = started + 1
    /\ pc' = "nodes"
    /\ before' = metrics
    /\ UNCHANGED << boot, token, tokenCalls, tokenResp, tokenValid, metrics,
                    arrived, sent, resps, result, raised >>

\* Abort with the exception swallowed: the scrape is answered 200 with the
\* samples collected so far
Abort_partial(error) ==
    /\ pc' = "idle"
    /\ raised' = error
    /\ IF cur = 0
       THEN boot' = "crashed" /\ result' = result
       ELSE /\ boot' = boot
            /\ result' = [result EXCEPT ![cur] =
                            [status |-> 200, body |-> Render(metrics)]]
    /\ UNCHANGED << metrics, resps >>

\* an exception leaves collect(): inside register it ends the bootstrap,
\* inside a scrape the framework answers 500 without a metric body
Abort(error) ==
    /\ pc' = "idle"
    /\ raised' = error
    /\ IF cur = 0
       THEN boot' = "crashed" /\ result' = result
       ELSE /\ boot' = boot
            /\ result' = [result EXCEPT ![cur] =
                            [status |-> 500, body |-> NoBody]]
    /\ UNCHANGED << metrics, resps >>

\* one _collect_*_metrics call of collect(): fetch the endpoint, then map
\* the JSON into self.metrics; next is the position collect() goes on to
Fetched(endpoint, r, next) ==
    LET f == fetch(endpoint, r)
    IN  /\ sent' = [sent EXCEPT ![cur] = @ \o fetch_requests(endpoint, token, r)]
        /\ IF f.ok
           THEN /\ metrics' = map_data(endpoint, metrics, f.data)
                /\ resps' = [resps EXCEPT ![cur] = Append(@, f.data)]
                /\ pc' = next
                /\ UNCHANGED << boot, result, raised >>
           ELSE Abort(f.error)
        /\ UNCHANGED << token, tokenCalls, tokenResp, tokenValid, arrived,
                        started, cur, before >>

\* what the upstream may answer to the GET of one _collect_*_metrics call:
\* a well-formed body while it accepts the token, or an error
Collected(endpoint, next) ==
    \/ /\ tokenValid
       /\ \E d \in Data(endpoint) :
            Fetched(endpoint, Response(200, TRUE, d), next)
    \/ \E r \in ErrorResponses(tokenValid) : Fetched(endpoint, r, next)

\* collect_nodes_metrics followed by the system mapping, the usage mapping
\* left out of collect()
collect_nodes_metrics_skip ==
    /\ pc = "nodes"
    /\ Collected("/nodes", "system")

collect_nodes_metrics ==
    /\ pc = "nodes"
    /\ Collected("/nodes", "usage")

collect_nodes_usage_metrics ==
    /\ pc = "usage"
    /\ Collected("/nodes/usage", "system")

collect_system_metrics ==
    /\ pc = "system"
    /\ Collected("/system", "core")

collect_core_metrics ==
    /\ pc = "core"
    /\ Collected("/core", "users")

collect_users_metrics ==
    /\ pc = "users"
    /\ Collected("/users", "yield")

\* `yield from self.metrics.values()`: register takes the names and the
\* bootstrap goes on; generate_latest serializes the families and the
\* route answers 200
yield_metrics ==
    /\ pc = "yield"
    /\ pc' = "idle"
    /\ IF cur = 0
       THEN boot' = "ready" /\ result' = result
       ELSE /\ boot' = boot
            /\ result' = [result EXCEPT ![cur] =
                            [status |-> 200, body |-> Render(metrics)]]
    /\ UNCHANGED << token, tokenCalls, tokenResp, tokenValid, metrics,
                    arrived, started, cur, sent, resps, raised, before >>

Next ==
    \/ MarzbanAPI_init
    \/ bootstrap
    \/ Expire
    \/ request_arrives
    \/ metrics_route
    \/ collect_nodes_metrics
    \/ collect_nodes_usage_metrics
    \/ collect_system_metrics
    \/ collect_core_metrics
    \/ collect_users_metrics
    \/ yield_metrics

Spec == Init /\ [][Next]_vars

(***************************************************************************)
(* The field mapping on its own: one scrape of a ready process, one of     *)
(* whose fetches returns records with any subset of their fields missing,  *)
(* in lists of up to MaxRecs records.                                      *)
(***************************************************************************)
Restrict(obj, keys) == [k \in keys |-> obj[k]]
Partial(obj) == {Restrict(obj, keys) : keys \in SUBSET DOMAIN obj}
SeqsUpTo(S, n) == UNION {[1..k -> S] : k \in 0..n}

PartialData(endpoint) ==
    CASE endpoint = "/nodes" -> SeqsUpTo(Partial(Node1), MaxRecs)
      [] endpoint = "/nodes/usage" ->
            {EmptyObject}
            \cup {[usages |-> u] : u \in SeqsUpTo(Partial(Usage1), MaxRecs)}
      [] endpoint = "/system" -> Partial(System1)
      [] endpoint = "/core" ->
            {EmptyObject, [started |-> JBool(TRUE)], [started |-> JBool(FALSE)]}
      [] endpoint = "/users" ->
            {EmptyObject}
            \cup {[users |-> u] : u \in SeqsUpTo(Partial(User1), MaxRecs)}

\* the responses the running scrape got so far are all fixtures
OnlyFixturesSoFar ==
    \A i \in 1..Len(resps[cur]) : resps[cur][i] \in Data(Endpoints[i])

InitMap ==
    /\ boot = "ready"
    /\ token = JStr("tok")
    /\ tokenCalls = 1
    /\ tokenResp = Response(200, TRUE, [access_token |-> JStr("tok")])
    /\ tokenValid = TRUE
    /\ metrics = NewMetrics
    /\ arrived = 1
    /\ started = 1
    /\ cur = 1
    /\ pc = "nodes"
    /\ sent = [c \in Collects |-> <<>>]
    /\ resps = [c \in Collects |-> <<>>]
    /\ result = [s \in Scrapes |-> NoResponse]
    /\ raised = NoError
    /\ before = NewMetrics

partial_nodes ==
    /\ pc = "nodes" /\ OnlyFixturesSoFar
    /\ \E d \in PartialData("/nodes") :
        Fetched("/nodes", Response(200, TRUE, d), "usage")

partial_nodes_usage ==
    /\ pc = "usage" /\ OnlyFixturesSoFar
    /\ \E d \in PartialData("/nodes/usage") :
        Fetched("/nodes/usage", Response(200, TRUE, d), "system")

partial_system ==
    /\ pc = "system" /\ OnlyFixturesSoFar
    /\ \E d \in PartialData("/system") :
        Fetched("/system", Response(200, TRUE, d), "core")

partial_core ==
    /\ pc = "core" /\ OnlyFixturesSoFar
    /\ \E d \in PartialData("/core") :
        Fetched("/core", Response(200, TRUE, d), "users")

partial_users ==
    /\ pc = "users" /\ OnlyFixturesSoFar
    /\ \E d \in PartialData("/users") :
        Fetched("/users", Response(200, TRUE, d), "yield")

NextMap ==
    \/ partial_nodes
    \/ partial_nodes_usage
    \/ partial_system
    \/ partial_core
    \/ partial_users
    \/ collect_nodes_metrics
    \/ collect_nodes_usage_metrics
    \/ collect_system_metrics
    \/ collect_core_metrics
    \/ collect_users_metrics
    \/ yield_metrics

SpecMap == InitMap /\ [][NextMap]_vars

(***************************************************************************)
(* Vocabulary of the properties.                                           *)
(***************************************************************************)
FetchPcs == {"nodes", "usage", "system", "core", "users"}

Served(s) == result[s].status = 200
Failed(s) == result[s].status = 500

\* a fetch of collect() c failed: it sent a request that returned no data
FetchFailed(c) == Len(sent[c]) > Len(resps[c])

\* the endpoints collect() c requested, in order
Requested(c) == [i \in 1..Len(sent[c]) |-> sent[c][i].endpoint]

\* the Metric Set of one scrape alone: the five mappings applied, in the
\* order of collect(), to families without samples
Alone(rs) ==
    Render(map_users(map_core(map_system(map_nodes_usage(
        map_nodes(NewMetrics, rs[1]), rs[2]), rs[3]), rs[4]), rs[5]))

\* the credential exchange failed: no response, a status that is not 2xx,
\* a body that is no JSON, or JSON without access_token
AuthFailed ==
    /\ tokenCalls > 0
    /\ \/ tokenResp.transport
       \/ tokenResp.status \notin 200..299
       \/ ~tokenResp.json
       \/ "access_token" \notin DOMAIN tokenResp.data

(***************************************************************************)
(* Properties.                                                             *)
(***************************************************************************)

\* C1: every scrape whose five fetches succeed serves exactly one
\* system_version, one core_started and one total_users sample, |nodes|
\* samples of node_usage_coefficient and of node_info, |usages| samples of
\* node_uplink_bytes and of node_downlink_bytes and |users| samples of
\* user_lifetime_used_traffic_bytes, for the lists returned to that scrape.
C1_SampleCounts ==
    \A s \in Scrapes :
        Served(s) =>
            LET body == result[s].body
                nodes == resps[s][1]
                usages == resps[s][2].usages
                users == resps[s][5].users
            IN  /\ Len(body["system_version"]) = 1
                /\ Len(body["core_started"]) = 1
                /\ Len(body["total_users"]) = 1
                /\ Len(body["node_usage_coefficient"]) = Len(nodes)
                /\ Len(body["node_info"]) = Len(nodes)
                /\ Len(body["node_uplink_bytes"]) = Len(usages)
                /\ Len(body["node_downlink_bytes"]) = Len(usages)
                /\ Len(body["user_lifetime_used_traffic_bytes"]) = Len(users)

\* C2: a scrape one of whose fetches failed is answered with an error and
\* without any metric body, whichever fetch it was; a scrape is answered
\* 200 only when all five fetches returned.
C2_AllOrNothing ==
    \A s \in Scrapes :
        /\ FetchFailed(s) => result[s] = [status |-> 500, body |-> NoBody]
        /\ Served(s) => ~FetchFailed(s) /\ Len(resps[s]) = Len(Endpoints)

\* C2 witness: a scrape whose fifth fetch failed after four had been mapped
C2_Witness ==
    \E s \in Scrapes :
        FetchFailed(s) /\ Len(resps[s]) = 4 /\ Failed(s) /\ metrics # before

\* C3: when a scrape has been aborted by a fetch failure, the translator's
\* state is what it was before that scrape.
C3_AbortLeavesNoTrace ==
    (pc = "idle" /\ cur \in Scrapes /\ Failed(cur)) => metrics = before

\* the labels of node_info after node_name, and the gauges of /system,
\* each with the JSON field it is read from
NodeInfoFields == << "name", "address", "port", "api_port", "xray_version", "status" >>
SystemGauges ==
    { << "system_mem_total", "mem_total" >>,
      << "system_mem_used", "mem_used" >>,
      << "system_cpu_usage", "cpu_usage" >>,
      << "system_total_users", "total_user" >>,
      << "system_active_users", "users_active" >>,
      << "system_incoming_bandwidth", "incoming_bandwidth" >>,
      << "system_outgoing_bandwidth", "outgoing_bandwidth" >> }
Absent(obj, key) == key \notin DOMAIN obj
Unknown == JStr("unknown")
Zero == JNum(0)

\* C4: in the samples of a scrape, a numeric field absent from a record is
\* the value 0 and an absent label field is the label "unknown", for the
\* node, node-usage, system, core and user records; and the scrape fails
\* only when one of its fetches failed.
C4_Defaults ==
    LET rs == resps[1]
        nodes == rs[1]
        usages == IF Absent(rs[2], "usages") THEN <<>> ELSE rs[2].usages
        users == IF Absent(rs[5], "users") THEN <<>> ELSE rs[5].users
    IN  /\ Len(rs) >= 1 =>
              /\ Len(metrics["node_usage_coefficient"]) = Len(nodes)
              /\ Len(metrics["node_address"]) = Len(nodes)
              /\ \A j \in 1..Len(nodes) :
                    LET coef == metrics["node_usage_coefficient"][j]
                        info == metrics["node_address"][j]
                    IN  /\ Absent(nodes[j], "usage_coefficient") => coef.value = Zero
                        /\ Absent(nodes[j], "name") => coef.labels = << Unknown >>
                        /\ \A k \in 1..Len(NodeInfoFields) :
                              Absent(nodes[j], NodeInfoFields[k])
                                  => info.labels[k] = Unknown
        /\ Len(rs) >= 2 =>
              /\ Len(metrics["node_uplink"]) = Len(usages)
              /\ Len(metrics["node_downlink"]) = Len(usages)
              /\ \A j \in 1..Len(usages) :
                    LET up == metrics["node_uplink"][j]
                        down == metrics["node_downlink"][j]
                    IN  /\ Absent(usages[j], "uplink") => up.value = Zero
                        /\ Absent(usages[j], "downlink") => down.value = Zero
                        /\ Absent(usages[j], "node_name") =>
                              (up.labels = << Unknown >> /\ down.labels = << Unknown >>)
        /\ Len(rs) >= 3 =>
              \A g \in SystemGauges :
                  /\ Len(metrics[g[1]]) = 1
                  /\ Absent(rs[3], g[2]) => metrics[g[1]][1].value = Zero
        /\ Len(rs) >= 4 =>
              /\ Len(metrics["core_started"]) = 1
              /\ Absent(rs[4], "started") => metrics["core_started"][1].value = Zero
        /\ Len(rs) >= 5 =>
              /\ Len(metrics["user_traffic"]) = Len(users)
              /\ \A j \in 1..Len(users) :
                    LET traffic == metrics["user_traffic"][j]
                    IN  /\ Absent(users[j], "lifetime_used_traffic")
                              => traffic.value = Zero
                        /\ Absent(users[j], "username")
                              => traffic.labels = << Unknown >>
        /\ Failed(1) => FetchFailed(1)
        /\ (pc = "idle" /\ ~FetchFailed(1)) => Served(1)

\* C4 witness: a served scrape that got a node without address and port and
\* a user without any field
C4_Witness ==
    /\ Served(1)
    /\ \E j \in 1..Len(resps[1][1]) :
          Absent(resps[1][1][j], "port") /\ Absent(resps[1][1][j], "address")
    /\ resps[1][5] = [users |-> << EmptyObject >>]
    /\ result[1].body["user_lifetime_used_traffic_bytes"]
          = << [labels |-> << Unknown >>, value |-> Zero] >>

\* C5: after a failed credential exchange the server never becomes ready
\* and no scrape is answered successfully.
C5_NoServiceWithoutAuth ==
    AuthFailed => (boot # "ready" /\ \A s \in Scrapes : ~Served(s))

\* C6: of two scrapes that are both answered, each serves exactly the
\* Metric Set of its own five responses: no sample of one appears in, or is
\* missing from, the other.
C6_ScrapesIndependent ==
    \A s1, s2 \in Scrapes :
        (s1 # s2 /\ Served(s1) /\ Served(s2)) =>
            /\ result[s1].body = Alone(resps[s1])
            /\ result[s2].body = Alone(resps[s2])

\* C7: the stored token is the one the credential exchange returned, and
\* every GET of every collect() carries it as Authorization: Bearer <token>.
C7_TokenFrame ==
    (boot # "import" /\ get_token(tokenResp).ok) =>
        /\ token = tokenResp.data["access_token"]
        /\ \A c \in Collects : \A i \in 1..Len(sent[c]) :
              /\ sent[c][i].method = "GET"
              /\ sent[c][i].authorization
                    = "Bearer " \o tokenResp.data["access_token"].v

\* C7 witness: fetches have succeeded and failed, over two scrapes
C7_Witness ==
    /\ boot = "ready"
    /\ Served(1) /\ Failed(2) /\ Len(sent[2]) >= 2
    /\ token = JStr("tok")

\* C8: the credential exchange is issued once; once the upstream rejects
\* the token, it is not acquired again, every fetch issued fails as an
\* ordinary fetch failure (an Exception naming the endpoint) and aborts its
\* scrape, and no collect() reaches its response any more.
C8_NoRefresh ==
    /\ [](tokenCalls <= 1)
    /\ [][ ~tokenValid =>
            /\ tokenCalls' = tokenCalls
            /\ token' = token
            /\ pc # "yield" => pc' # "yield"
            /\ (pc \in FetchPcs /\ pc' # pc) =>
                  /\ pc' = "idle"
                  /\ raised'.type = "Exception"
                  /\ raised'.endpoint = sent'[cur][Len(sent'[cur])].endpoint
                  /\ cur \in Scrapes => result'[cur].status = 500 ]_vars

\* C8 witness: a scrape was served, then the token expired and the next one
\* failed at its first fetch with the upstream's 401
C8_Witness ==
    /\ ~tokenValid
    /\ tokenCalls = 1
    /\ Served(1) /\ Failed(2) /\ Len(sent[2]) = 1
    /\ raised = Raised("Exception", "/nodes", "status")

\* C9: a collect() requests no resource twice, a served scrape has
\* requested each of the five once, and a fetch that failed on a status or
\* a transport error raised an Exception naming the resource it requested.
C9_NoRetry ==
    /\ \A c \in Collects :
          \A i, j \in 1..Len(sent[c]) :
              sent[c][i].endpoint = sent[c][j].endpoint => i = j
    /\ \A s \in Scrapes :
          Served(s) =>
              /\ Len(sent[s]) = Len(Endpoints)
              /\ {sent[s][i].endpoint : i \in 1..Len(sent[s])} = EndpointSet
    /\ (pc = "idle" /\ cur \in Scrapes /\ Failed(cur)
            /\ raised.cause \in {"status", "transport"}) =>
          /\ raised.type = "Exception"
          /\ raised.endpoint = sent[cur][Len(sent[cur])].endpoint

\* C9 witness: the third fetch of a scrape failed on a transport error
C9_Witness ==
    /\ pc = "idle" /\ cur \in Scrapes /\ Failed(cur)
    /\ Requested(cur) = << "/nodes", "/nodes/usage", "/system" >>
    /\ raised = Raised("Exception", "/system", "transport")

\* C10: the requests of a collect() are a prefix of /nodes, /nodes/usage,
\* /system, /core, /users; each is issued after the previous one returned;
\* after a failed fetch the collect() does not go on; and a scrape is
\* answered 200 only after the fifth fetch returned.
C10_Sequential ==
    /\ \A c \in Collects :
          /\ Len(sent[c]) <= Len(Endpoints)
          /\ Requested(c) = SubSeq(Endpoints, 1, Len(sent[c]))
          /\ Len(resps[c]) \in {Len(sent[c]) - 1, Len(sent[c])}
          /\ FetchFailed(c) => (pc = "idle" \/ cur # c)
    /\ \A s \in Scrapes :
          /\ Served(s) => Len(resps[s]) = Len(Endpoints)
          /\ Failed(s) => FetchFailed(s)

\* C10 witness: a scrape stopped at its second fetch, the next one ran all
\* five
C10_Witness ==
    /\ Failed(1) /\ Requested(1) = << "/nodes", "/nodes/usage" >>
    /\ Served(2) /\ Requested(2) = Endpoints

====
